---- MODULE Spec2Model ----
(***************************************************************************)
(* A model of the expense tracker of src/expense_tracker.cpp: the Date     *)
(* value type, the CSV field codec, the record store (ExpenseManager) and  *)
(* its persistence to a CSV file.                                          *)
(*                                                                         *)
(* A std::string is a sequence of one-character strings.  An amount (a     *)
(* double in the source) is an integer number of hundredths.  The amounts  *)
(* the model draws are multiples of 0.25 below 10000, which a double holds *)
(* exactly and adds without rounding, and which operator<< prints in full; *)
(* the amount texts drawn have no exponent, "inf", "nan" or hexadecimal    *)
(* form.                                                                   *)
(***************************************************************************)
EXTENDS Integers, Sequences, FiniteSets, TLC

VARIABLES
    expenses,   \* ExpenseManager::expenses_, the store
    file,       \* the content of the CSV file on disk, or NoFile
    call,       \* the last operation called on the store, with its arguments
    ret,        \* the value the last save_csv / load_csv returned
    out,        \* the list the last filter_by_date_range returned
    by,         \* the map the last totals_by_category returned
    tot,        \* the value the last total returned
    stage,      \* date harness: "date", "text" or "parsed"
    dt,         \* date harness: the Date handed to to_string, or NoDate
    txt,        \* date harness: the text handed to parse_date
    parsed,     \* date harness: what parse_date returned
    fstage,     \* field harness: "raw", "escaped" or "unescaped"
    fld,        \* field harness: the text handed to csv_escape
    enc,        \* field harness: what csv_escape returned
    dec         \* field harness: what csv_unescape returned

storeVars == <<expenses, file, call, ret, out, by, tot>>
dateVars  == <<stage, dt, txt, parsed>>
fieldVars == <<fstage, fld, enc, dec>>
vars == <<expenses, file, call, ret, out, by, tot,
          stage, dt, txt, parsed, fstage, fld, enc, dec>>

----------------------------------------------------------------------------
(* Characters and texts *)

Digits == <<"0", "1", "2", "3", "4", "5", "6", "7", "8", "9">>

IsDigit(c) == \E i \in 1..10 : Digits[i] = c

DigitVal(c) == (CHOOSE i \in 1..10 : Digits[i] = c) - 1

\* std::isspace in the "C" locale (the vertical tab, which no text drawn
\* holds, left out)
IsSpace(c) == c \in {" ", "\t", "\n", "\r", "\f"}

RECURSIVE IntToStr(_)
\* operator<<(int) for a value >= 0: its decimal digits
IntToStr(n) ==
    IF n < 10 THEN <<Digits[n + 1]>>
    ELSE IntToStr(n \div 10) \o <<Digits[(n % 10) + 1]>>

RECURSIVE PadLeft(_, _, _)
\* std::setw(w) << std::setfill(c): shorter output is filled on the left,
\* longer output is never cut
PadLeft(s, w, c) == IF Len(s) >= w THEN s ELSE PadLeft(<<c>> \o s, w, c)

RECURSIVE SkipSpace(_, _)
\* the index of the first character of s at or after i that is no white space
SkipSpace(s, i) ==
    IF i <= Len(s) /\ IsSpace(s[i]) THEN SkipSpace(s, i + 1) ELSE i

RECURSIVE DigitRun(_, _)
\* the index after the run of digits of s that starts at i
DigitRun(s, i) ==
    IF i <= Len(s) /\ IsDigit(s[i]) THEN DigitRun(s, i + 1) ELSE i

RECURSIVE DigitsVal(_, _, _)
\* the decimal value of the digits s[i..j-1]
DigitsVal(s, i, j) ==
    IF j <= i THEN 0 ELSE DigitsVal(s, i, j - 1) * 10 + DigitVal(s[j - 1])

HasSign(s, i) == i <= Len(s) /\ s[i] \in {"+", "-"}

\* std::stoi(s): white space is skipped, a sign is optional, the longest run
\* of digits is converted and whatever follows it is ignored; it throws
\* (ok = FALSE) when no digit is found
stoi(s) ==
    LET i == SkipSpace(s, 1)
        j == IF HasSign(s, i) THEN i + 1 ELSE i
        k == DigitRun(s, j)
        v == DigitsVal(s, j, k)
    IN  IF k = j THEN [ok |-> FALSE, val |-> 0]
        ELSE [ok |-> TRUE, val |-> IF HasSign(s, i) /\ s[i] = "-" THEN 0 - v ELSE v]

----------------------------------------------------------------------------
(* Date *)

MinYear == 1900
YearWidth == 4
FieldWidth == 2

\* an empty std::optional<Date>
NoDate == [y |-> 0, m |-> 0, d |-> 0]

is_leap(y) == (y % 4 = 0 /\ y % 100 # 0) \/ (y % 400 = 0)

md == <<31, 28, 31, 30, 31, 30, 31, 31, 30, 31, 30, 31>>

valid_date(date) ==
    IF date.y < MinYear \/ date.m < 1 \/ date.m > 12 \/ date.d < 1 THEN FALSE
    ELSE date.d <= md[date.m] + (IF date.m = 2 /\ is_leap(date.y) THEN 1 ELSE 0)

parse_date(s) ==
    IF Len(s) # 10 \/ s[5] # "-" \/ s[8] # "-" THEN NoDate
    ELSE LET y == stoi(SubSeq(s, 1, 4))
             m == stoi(SubSeq(s, 6, 7))
             d == stoi(SubSeq(s, 9, 10))
             date == [y |-> y.val, m |-> m.val, d |-> d.val]
         IN  IF ~y.ok \/ ~m.ok \/ ~d.ok THEN NoDate
             ELSE IF valid_date(date) THEN date ELSE NoDate

\* to_string without std::setw and std::setfill
to_string_unpadded(date) ==
    IntToStr(date.y) \o <<"-">> \o IntToStr(date.m) \o <<"-">> \o IntToStr(date.d)

to_string(date) ==
    PadLeft(IntToStr(date.y), YearWidth, "0") \o <<"-">>
        \o PadLeft(IntToStr(date.m), FieldWidth, "0") \o <<"-">>
        \o PadLeft(IntToStr(date.d), FieldWidth, "0")

\* date_le with d < in place of d <=
date_le_exclusive(a, b) ==
    (a.y < b.y) \/ (a.y = b.y /\ (a.m < b.m \/ (a.m = b.m /\ a.d < b.d)))

date_le(a, b) ==
    (a.y < b.y) \/ (a.y = b.y /\ (a.m < b.m \/ (a.m = b.m /\ a.d <= b.d)))

----------------------------------------------------------------------------
(* CSV helpers *)

Quote == "\""

IsSpecial(c) == c \in {",", Quote, "\n"}

RECURSIVE DoubleQuotes(_)
\* the loop of csv_escape: every character copied, a quote written twice
DoubleQuotes(s) ==
    IF s = <<>> THEN <<>>
    ELSE (IF Head(s) = Quote THEN <<Quote, Quote>> ELSE <<Head(s)>>)
             \o DoubleQuotes(Tail(s))

\* csv_escape without the doubling of embedded quotes
csv_escape_undoubled(s) ==
    IF \A i \in 1..Len(s) : ~IsSpecial(s[i]) THEN s
    ELSE <<Quote>> \o s \o <<Quote>>

csv_escape(s) ==
    IF \A i \in 1..Len(s) : ~IsSpecial(s[i]) THEN s
    ELSE <<Quote>> \o DoubleQuotes(s) \o <<Quote>>

RECURSIVE CollapseQuotes(_, _)
\* the loop of csv_unescape from index i: a quote followed by a quote yields
\* one quote and skips both, any other character is copied
CollapseQuotes(s, i) ==
    IF i > Len(s) THEN <<>>
    ELSE IF s[i] = Quote /\ i + 1 <= Len(s) /\ s[i + 1] = Quote
         THEN <<Quote>> \o CollapseQuotes(s, i + 2)
         ELSE <<s[i]>> \o CollapseQuotes(s, i + 1)

csv_unescape(s) ==
    IF Len(s) >= 2 /\ s[1] = Quote /\ s[Len(s)] = Quote
    THEN CollapseQuotes(SubSeq(s, 2, Len(s) - 1), 1)
    ELSE s

RECURSIVE SplitFrom(_, _, _, _, _)
\* the first loop of csv_split_line from index i, with the columns pushed so
\* far, the column being read and the in-quotes flag
SplitFrom(line, i, cols, cur, in_q) ==
    IF i > Len(line) THEN Append(cols, cur)
    ELSE IF line[i] = Quote
         THEN SplitFrom(line, i + 1, cols, Append(cur, line[i]), ~in_q)
    ELSE IF line[i] = "," /\ ~in_q
         THEN SplitFrom(line, i + 1, Append(cols, cur), <<>>, in_q)
    ELSE SplitFrom(line, i + 1, cols, Append(cur, line[i]), in_q)

RECURSIVE StripEol(_)
\* the second loop of csv_split_line on one column: trailing carriage
\* returns and newlines popped
StripEol(s) ==
    IF s # <<>> /\ s[Len(s)] \in {"\r", "\n"}
    THEN StripEol(SubSeq(s, 1, Len(s) - 1))
    ELSE s

csv_split_line(line) ==
    LET cols == SplitFrom(line, 1, <<>>, <<>>, FALSE)
    IN  [i \in 1..Len(cols) |-> StripEol(cols[i])]

----------------------------------------------------------------------------
(* Amounts: a double held as an integer number of hundredths *)

\* std::stod(s): white space is skipped, a sign is optional, the longest
\* prefix of digits with at most one decimal point is converted and whatever
\* follows it is ignored; it throws (ok = FALSE) when that prefix has no digit
stod(s) ==
    LET i == SkipSpace(s, 1)
        j == IF HasSign(s, i) THEN i + 1 ELSE i
        k == DigitRun(s, j)
        hasDot == k <= Len(s) /\ s[k] = "."
        l == IF hasDot THEN DigitRun(s, k + 1) ELSE k
        nFrac == IF hasDot THEN l - (k + 1) ELSE 0
        frac == IF nFrac = 0 THEN 0
                ELSE IF nFrac = 1 THEN DigitVal(s[k + 1]) * 10
                ELSE DigitsVal(s, k + 1, k + 3)
        v == DigitsVal(s, j, k) * 100 + frac
    IN  IF (k - j) + nFrac = 0 THEN [ok |-> FALSE, val |-> 0]
        ELSE [ok |-> TRUE, val |-> IF HasSign(s, i) /\ s[i] = "-" THEN 0 - v ELSE v]

\* operator<<(double) in its default format, for fewer than seven
\* significant digits: no trailing zeros, no decimal point without a fraction
FormatAmount(a) ==
    LET n == IF a < 0 THEN 0 - a ELSE a
        whole == IntToStr(n \div 100)
        f == n % 100
        digits == IF f = 0 THEN whole
                  ELSE IF f % 10 = 0 THEN whole \o <<".", Digits[(f \div 10) + 1]>>
                  ELSE whole \o <<".", Digits[(f \div 10) + 1], Digits[(f % 10) + 1]>>
    IN  IF a < 0 THEN <<"-">> \o digits ELSE digits

----------------------------------------------------------------------------
(* Text matching *)

UpperCase ==
    <<"A", "B", "C", "D", "E", "F", "G", "H", "I", "J", "K", "L", "M",
      "N", "O", "P", "Q", "R", "S", "T", "U", "V", "W", "X", "Y", "Z">>

LowerCase ==
    <<"a", "b", "c", "d", "e", "f", "g", "h", "i", "j", "k", "l", "m",
      "n", "o", "p", "q", "r", "s", "t", "u", "v", "w", "x", "y", "z">>

\* std::tolower in the "C" locale
ToLowerChar(c) ==
    IF \E i \in 1..26 : UpperCase[i] = c
    THEN LowerCase[CHOOSE i \in 1..26 : UpperCase[i] = c]
    ELSE c

\* to_lower without the std::transform
to_lower_identity(s) == s

to_lower(s) == [i \in 1..Len(s) |-> ToLowerChar(s[i])]

----------------------------------------------------------------------------
(* ExpenseManager: the store and its queries *)

\* struct Expense
Expense(date, amount, category, description) ==
    [date |-> date, amount |-> amount, category |-> category,
     description |-> description]

\* the arguments of the last call; from and to are NoDate unless it filtered
Call(op, from, to) == [op |-> op, from |-> from, to |-> to]

RECURSIVE FilterRange(_, _, _, _)
\* the loop of filter_by_date_range over expenses_ from index i
FilterRange(list, i, from, to) ==
    IF i > Len(list) THEN <<>>
    ELSE (IF date_le(from, list[i].date) /\ date_le(list[i].date, to)
          THEN <<list[i]>> ELSE <<>>) \o FilterRange(list, i + 1, from, to)

RECURSIVE total(_)
total(list) ==
    IF list = <<>> THEN 0
    ELSE total(SubSeq(list, 1, Len(list) - 1)) + list[Len(list)].amount

\* m[key] += amount on a std::map<std::string,double>: a missing key is
\* first inserted with 0.0
MapAdd(m, key, amount) ==
    [k \in DOMAIN m \cup {key} |->
        (IF k \in DOMAIN m THEN m[k] ELSE 0) + (IF k = key THEN amount ELSE 0)]

RECURSIVE totals_by_category(_)
\* the loop of totals_by_category: m[to_lower(e.category)] += e.amount
totals_by_category(list) ==
    IF list = <<>> THEN <<>>
    ELSE MapAdd(totals_by_category(SubSeq(list, 1, Len(list) - 1)),
                to_lower(list[Len(list)].category), list[Len(list)].amount)

----------------------------------------------------------------------------
(* Persistence *)

\* the file does not exist
NoFile == <<"ENOENT">>

Header ==
    <<"d", "a", "t", "e", ",", "a", "m", "o", "u", "n", "t", ",", "c", "a",
    "t", "e", "g", "o", "r", "y", ",", "d", "e", "s", "c", "r", "i", "p", "t",
    "i", "o", "n">>

Uncategorized ==
    <<"U", "n", "c", "a", "t", "e", "g", "o", "r", "i", "z", "e", "d">>

StartsWith(s, p) == Len(s) >= Len(p) /\ SubSeq(s, 1, Len(p)) = p

\* one line of save_csv's loop, its newline included
RecordLine(e) ==
    to_string(e.date) \o <<",">> \o FormatAmount(e.amount) \o <<",">>
        \o csv_escape(e.category) \o <<",">> \o csv_escape(e.description)
        \o <<"\n">>

RECURSIVE RecordLines(_)
RecordLines(list) ==
    IF list = <<>> THEN <<>>
    ELSE RecordLine(Head(list)) \o RecordLines(Tail(list))

\* what save_csv writes to the stream
SavedContent(list) == Header \o <<"\n">> \o RecordLines(list)

RECURSIVE GetLines(_, _, _)
\* std::getline repeated until it fails: the text is cut at each newline, and
\* a last line without a newline is returned unless it is empty
GetLines(content, i, cur) ==
    IF i > Len(content) THEN (IF cur = <<>> THEN <<>> ELSE <<cur>>)
    ELSE IF content[i] = "\n" THEN <<cur>> \o GetLines(content, i + 1, <<>>)
    ELSE GetLines(content, i + 1, Append(cur, content[i]))

\* parse_csv_line on the store `list`: the store with the decoded record
\* pushed, or unchanged when the line is skipped
parse_csv_line(list, line) ==
    LET cols == csv_split_line(line)
    IN  IF Len(cols) < 4 THEN list
        ELSE LET d == parse_date(cols[1])
                 amt == stod(cols[2])
             IN  IF d = NoDate THEN list
                 ELSE IF ~amt.ok THEN list
                 ELSE Append(list, Expense(d, amt.val, csv_unescape(cols[3]),
                                           csv_unescape(cols[4])))

RECURSIVE ParseLines(_, _, _)
\* the while loop of load_csv from line i
ParseLines(list, lines, i) ==
    IF i > Len(lines) THEN list
    ELSE ParseLines(parse_csv_line(list, lines[i]), lines, i + 1)

\* load_csv without expenses_.clear()
LoadInto_keeps_old(list, content) ==
    LET lines == GetLines(content, 1, <<>>)
        first == IF Len(lines) >= 1 /\ ~StartsWith(lines[1], Header)
                 THEN parse_csv_line(list, lines[1])
                 ELSE list
    IN  ParseLines(first, lines, 2)

\* load_csv once the file is open, on the store `list`: the store is
\* cleared, the first line is parsed unless it starts with the header, the
\* remaining lines are parsed
LoadInto(list, content) ==
    LET lines == GetLines(content, 1, <<>>)
        cleared == <<>>
        first == IF Len(lines) >= 1 /\ ~StartsWith(lines[1], Header)
                 THEN parse_csv_line(cleared, lines[1])
                 ELSE cleared
    IN  ParseLines(first, lines, 2)

\* the loops of prompt_expense leave only with a date that parses and an
\* amount that converts and is >= 0
\* the amount loop without its test e.amount >= 0
prompt_accepts_any_amount(dateText, amountText) ==
    parse_date(dateText) # NoDate /\ stod(amountText).ok

prompt_accepts(dateText, amountText) ==
    /\ parse_date(dateText) # NoDate
    /\ stod(amountText).ok
    /\ stod(amountText).val >= 0

prompt_expense(dateText, amountText, categoryText, descriptionText) ==
    Expense(parse_date(dateText), stod(amountText).val,
            IF categoryText = <<>> THEN Uncategorized ELSE categoryText,
            descriptionText)

----------------------------------------------------------------------------
(* The Date harness: to_string and parse_date applied to drawn inputs *)

YearSamples == {1900, 2000, 2023, 2024, 2100, 9999, 10000, 12345}

\* every Date for which valid_date holds, over the sampled years
SampleDates ==
    {date \in [y : YearSamples, m : 1..12, d : 1..31] : valid_date(date)}

YearTexts ==
    {<<"2", "0", "2", "3">>, <<"2", "0", "2", "4">>, <<"1", "9", "0", "0">>,
     <<"1", "8", "9", "9">>, <<"2", "3">>, <<"2", "0", "2", "a">>,
     <<" ", "9", "9", "9">>}

MonthTexts ==
    {<<"0", "1">>, <<"0", "2">>, <<"1", "2">>, <<"1", "3">>, <<"0", "0">>,
     <<" ", "1">>, <<"+", "1">>, <<"-", "1">>, <<"1", "a">>, <<"a", "1">>,
     <<"1">>}

DayTexts ==
    {<<"0", "1">>, <<"2", "8">>, <<"2", "9">>, <<"3", "1">>, <<"3", "2">>,
     <<" ", "5">>, <<"+", "5">>, <<"5", "x">>, <<"x", "5">>}

Separators == {"-", "/"}

\* the texts handed to parse_date: well-formed ones and near misses
DateTexts ==
    {yt \o <<s1>> \o mt \o <<s2>> \o dayt :
        yt \in YearTexts, s1 \in Separators, mt \in MonthTexts,
        s2 \in Separators, dayt \in DayTexts}

InitDate ==
    /\ \/ /\ stage = "date"
          /\ dt \in SampleDates
          /\ txt = <<>>
       \/ /\ stage = "text"
          /\ dt = NoDate
          /\ txt \in DateTexts
    /\ parsed = NoDate

FormatDate ==
    /\ stage = "date"
    /\ txt' = to_string(dt)
    /\ stage' = "text"
    /\ UNCHANGED <<dt, parsed, storeVars, fieldVars>>

ParseDate ==
    /\ stage = "text"
    /\ parsed' = parse_date(txt)
    /\ stage' = "parsed"
    /\ UNCHANGED <<dt, txt, storeVars, fieldVars>>

----------------------------------------------------------------------------
(* The field harness: csv_escape and csv_unescape applied to drawn texts *)

MaxFieldLen == 4

FieldAlphabet == {"a", ",", Quote, "\n"}

FieldTexts == UNION {[1..n -> FieldAlphabet] : n \in 0..MaxFieldLen}

InitField ==
    /\ fstage = "raw"
    /\ fld \in FieldTexts
    /\ enc = <<>>
    /\ dec = <<>>

EscapeField ==
    /\ fstage = "raw"
    /\ enc' = csv_escape(fld)
    /\ fstage' = "escaped"
    /\ UNCHANGED <<fld, dec, storeVars, dateVars>>

UnescapeField ==
    /\ fstage = "escaped"
    /\ dec' = csv_unescape(enc)
    /\ fstage' = "unescaped"
    /\ UNCHANGED <<fld, enc, storeVars, dateVars>>

----------------------------------------------------------------------------
(* Idle values of the parts a specification does not exercise *)

IdleStore ==
    /\ expenses = <<>>
    /\ file = NoFile
    /\ call = Call("none", NoDate, NoDate)
    /\ ret = FALSE
    /\ out = <<>>
    /\ by = <<>>
    /\ tot = 0

IdleDate ==
    /\ stage = "idle"
    /\ dt = NoDate
    /\ txt = <<>>
    /\ parsed = NoDate

IdleField ==
    /\ fstage = "idle"
    /\ fld = <<>>
    /\ enc = <<>>
    /\ dec = <<>>

InitDateSpec == InitDate /\ IdleStore /\ IdleField

NextDate == FormatDate \/ ParseDate

SpecDate == InitDateSpec /\ [][NextDate]_vars

----------------------------------------------------------------------------
(* The operations of the store, as the menu of main calls them *)

MaxRecords == 2
MaxQueryRecords == 3
MaxLines == 2

\* ExpenseManager::add
add(e) ==
    /\ expenses' = Append(expenses, e)
    /\ call' = Call("add", NoDate, NoDate)
    /\ ret' = FALSE
    /\ out' = <<>>
    /\ by' = <<>>
    /\ tot' = 0
    /\ UNCHANGED <<file, dateVars, fieldVars>>

filter_by_date_range(from, to) ==
    /\ out' = FilterRange(expenses, 1, from, to)
    /\ call' = Call("filter", from, to)
    /\ ret' = FALSE
    /\ by' = <<>>
    /\ tot' = 0
    /\ UNCHANGED <<expenses, file, dateVars, fieldVars>>

\* main, choice 6: totals_by_category and total of all()
Summary ==
    /\ by' = totals_by_category(expenses)
    /\ tot' = total(expenses)
    /\ call' = Call("summary", NoDate, NoDate)
    /\ ret' = FALSE
    /\ out' = <<>>
    /\ UNCHANGED <<expenses, file, dateVars, fieldVars>>

\* the stream opens or not; an absent file never opens for reading
save_csv ==
    \E opens \in BOOLEAN :
        /\ file' = IF opens THEN SavedContent(expenses) ELSE file
        /\ ret' = opens
        /\ call' = Call("save", NoDate, NoDate)
        /\ out' = <<>>
        /\ by' = <<>>
        /\ tot' = 0
        /\ UNCHANGED <<expenses, dateVars, fieldVars>>

\* load_csv with expenses_.clear() ahead of the test of the stream
load_csv_clears_first ==
    \E opens \in BOOLEAN :
        /\ file = NoFile => ~opens
        /\ expenses' = IF opens THEN LoadInto(expenses, file) ELSE <<>>
        /\ ret' = opens
        /\ call' = Call("load", NoDate, NoDate)
        /\ out' = <<>>
        /\ by' = <<>>
        /\ tot' = 0
        /\ UNCHANGED <<file, dateVars, fieldVars>>

load_csv ==
    \E opens \in BOOLEAN :
        /\ file = NoFile => ~opens
        /\ expenses' = IF opens THEN LoadInto(expenses, file) ELSE expenses
        /\ ret' = opens
        /\ call' = Call("load", NoDate, NoDate)
        /\ out' = <<>>
        /\ by' = <<>>
        /\ tot' = 0
        /\ UNCHANGED <<file, dateVars, fieldVars>>

----------------------------------------------------------------------------
(* The inputs drawn *)

PromptDateTexts ==
    {<<"2", "0", "2", "4", "-", "0", "1", "-", "1", "5">>,
     <<"2", "0", "2", "4", "-", "1", "3", "-", "0", "1">>}

PromptAmountTexts == {<<"5">>, <<"-", "5">>, <<"x">>}

PromptCategoryTexts == {<<>>, <<"a", ",", "b">>}

PromptDescriptionTexts == {<<"x">>}

\* records handed to add directly: valid dates, amounts >= 0, any text
TextExpenses ==
    {Expense([y |-> 2024, m |-> 2, d |-> 1], 4250,
             <<Quote, "q", Quote>>,
             <<"l", "1", "\n", "l", "2">>)}

QueryExpenses ==
    {Expense([y |-> 2024, m |-> 1, d |-> 1], 1000,
             <<"F", "o", "o", "d">>,
             <<>>),
     Expense([y |-> 2024, m |-> 1, d |-> 15], 550,
             <<"f", "o", "o", "d">>,
             <<>>),
     Expense([y |-> 2024, m |-> 2, d |-> 1], 2000,
             <<"R", "e", "n", "t">>,
             <<>>),
     Expense([y |-> 2023, m |-> 12, d |-> 31], 25,
             <<"F", "O", "O", "D">>,
             <<"x">>)}

QueryDates ==
    {[y |-> 2023, m |-> 12, d |-> 31], [y |-> 2024, m |-> 1, d |-> 1],
     [y |-> 2024, m |-> 1, d |-> 15], [y |-> 2024, m |-> 2, d |-> 1]}

\* the lines of the files drawn:
\*   1  date,amount,category,description        the header
\*   2  2024-01-15,42.5,Food,Lunch              a record
\*   3  2024-13-01,5,Food,x                     month 13
\*   4  2024-01-15,12abc,Food,x                 letters after the amount
\*   5  2024-01-15,-5,Food,x                    a negative amount
\*   6  2024-01-15,5,Food                       three fields
\*   7  2024-02-01,"1,200.00","a, b",x          a quoted amount
\*   8  2024-01-15,5,a,b,extra<CR>              a fifth field, a carriage return
SampleLines ==
    <<<<"d", "a", "t", "e", ",", "a", "m", "o", "u", "n", "t", ",", "c", "a",
        "t", "e", "g", "o", "r", "y", ",", "d", "e", "s", "c", "r", "i", "p",
        "t", "i", "o", "n">>,
      <<"2", "0", "2", "4", "-", "0", "1", "-", "1", "5", ",", "4", "2", ".",
        "5", ",", "F", "o", "o", "d", ",", "L", "u", "n", "c", "h">>,
      <<"2", "0", "2", "4", "-", "1", "3", "-", "0", "1", ",", "5", ",", "F",
        "o", "o", "d", ",", "x">>,
      <<"2", "0", "2", "4", "-", "0", "1", "-", "1", "5", ",", "1", "2", "a",
        "b", "c", ",", "F", "o", "o", "d", ",", "x">>,
      <<"2", "0", "2", "4", "-", "0", "1", "-", "1", "5", ",", "-", "5", ",",
        "F", "o", "o", "d", ",", "x">>,
      <<"2", "0", "2", "4", "-", "0", "1", "-", "1", "5", ",", "5", ",", "F",
        "o", "o", "d">>,
      <<"2", "0", "2", "4", "-", "0", "2", "-", "0", "1", ",", Quote, "1",
        ",", "2", "0", "0", ".", "0", "0", Quote, ",", Quote, "a", ",", " ",
        "b", Quote, ",", "x">>,
      <<"2", "0", "2", "4", "-", "0", "1", "-", "1", "5", ",", "5", ",", "a",
        ",", "b", ",", "e", "x", "t", "r", "a", "\r">>>>

RECURSIVE JoinLines(_)
\* a file of the given lines, each ended by a newline
JoinLines(ls) ==
    IF ls = <<>> THEN <<>>
    ELSE Head(ls) \o <<"\n">> \o JoinLines(Tail(ls))

\* the files a user may have prepared: up to MaxLines lines, each a sample
ExternalFiles ==
    {JoinLines([i \in DOMAIN pick |-> SampleLines[pick[i]]]) :
        pick \in UNION {[1..n -> 1..Len(SampleLines)] : n \in 0..MaxLines}}

----------------------------------------------------------------------------
(* Specifications *)

\* main, choice 1: prompt_expense, then add
MenuAdd ==
    \E ds \in PromptDateTexts, as \in PromptAmountTexts,
       c \in PromptCategoryTexts, d \in PromptDescriptionTexts :
        /\ Len(expenses) < MaxRecords
        /\ prompt_accepts(ds, as)
        /\ add(prompt_expense(ds, as, c, d))

AddText ==
    \E e \in TextExpenses :
        /\ Len(expenses) < MaxRecords
        /\ add(e)

AddForQuery ==
    \E e \in QueryExpenses :
        /\ Len(expenses) < MaxQueryRecords
        /\ add(e)

FilterByRange ==
    \E from \in QueryDates, to \in QueryDates : filter_by_date_range(from, to)

InitStore ==
    /\ expenses = <<>>
    /\ call = Call("none", NoDate, NoDate)
    /\ ret = FALSE
    /\ out = <<>>
    /\ by = <<>>
    /\ tot = 0

Init ==
    /\ InitStore
    /\ file \in {NoFile} \cup ExternalFiles
    /\ IdleDate
    /\ IdleField

Next == MenuAdd \/ AddText \/ save_csv \/ load_csv

Spec == Init /\ [][Next]_vars

InitQuery ==
    /\ InitStore
    /\ file = NoFile
    /\ IdleDate
    /\ IdleField

NextQuery == AddForQuery \/ FilterByRange \/ Summary

SpecQuery == InitQuery /\ [][NextQuery]_vars

----------------------------------------------------------------------------
(* Claims about Date *)

AllDigits(s) == \A i \in 1..Len(s) : IsDigit(s[i])

\* the text is exactly YYYY-MM-DD, digits in all eight numeric positions,
\* and denotes a calendar-valid date with year >= 1900
StrictYMD(s) ==
    /\ Len(s) = 10
    /\ s[5] = "-"
    /\ s[8] = "-"
    /\ AllDigits(SubSeq(s, 1, 4))
    /\ AllDigits(SubSeq(s, 6, 7))
    /\ AllDigits(SubSeq(s, 9, 10))
    /\ LET y == DigitsVal(s, 1, 5)
           m == DigitsVal(s, 6, 8)
           d == DigitsVal(s, 9, 11)
       IN  /\ y >= 1900
           /\ m \in 1..12
           /\ d >= 1
           /\ d <= (IF m \in {4, 6, 9, 11} THEN 30
                    ELSE IF m # 2 THEN 31
                    ELSE IF (y % 4 = 0 /\ y % 100 # 0) \/ y % 400 = 0 THEN 29
                    ELSE 28)

\* C3: parse_date succeeds only on a text that is exactly YYYY-MM-DD, with
\* decimal digits in all eight numeric positions, denoting a calendar-valid
\* date with year >= 1900.
C3_StrictDateParse ==
    (stage = "parsed" /\ parsed # NoDate) => StrictYMD(txt)

\* a text with a non-digit in a numeric position has been parsed
C3_Witness ==
    /\ stage = "parsed"
    /\ dt = NoDate
    /\ Len(txt) = 10
    /\ ~AllDigits(SubSeq(txt, 6, 7))

\* C4 as claimed: for every calendar-valid date with y >= 1900, with no upper
\* bound on y, parse_date(to_string(date)) is that date.
C4_RoundTripAnyYear ==
    (stage = "parsed" /\ dt # NoDate) => parsed = dt

\* C4 as amended: for every calendar-valid date with 1900 <= y <= 9999,
\* parse_date(to_string(date)) succeeds and is that date.
C4_RoundTripFourDigitYear ==
    (stage = "parsed" /\ dt # NoDate /\ dt.y >= 1900 /\ dt.y <= 9999)
        => (parsed # NoDate /\ parsed = dt)

\* a date with a one-digit month and day, formatted and parsed back
C4_Witness ==
    /\ stage = "parsed"
    /\ dt # NoDate
    /\ dt.y = 9999
    /\ dt.m < 10
    /\ dt.d < 10
    /\ parsed = dt

----------------------------------------------------------------------------
(* Claims about the field codec *)

InitFieldSpec == InitField /\ IdleStore /\ IdleDate

NextField == EscapeField \/ UnescapeField

SpecField == InitFieldSpec /\ [][NextField]_vars

\* C5: for every text s, the empty text and texts with commas, quotes and
\* newlines included, csv_unescape(csv_escape(s)) = s.
C5_FieldRoundTrip ==
    fstage = "unescaped" => dec = fld

\* a text that itself begins and ends with a quote has been escaped (which
\* changed it) and unescaped
C5_Witness ==
    /\ fstage = "unescaped"
    /\ Len(fld) >= 2
    /\ fld[1] = Quote
    /\ fld[Len(fld)] = Quote
    /\ enc # fld

----------------------------------------------------------------------------
(* Claims about the queries *)

\* year, then month, then day, as one number
DateKey(date) == date.y * 10000 + date.m * 100 + date.d

InRange(date, from, to) ==
    DateKey(from) <= DateKey(date) /\ DateKey(date) <= DateKey(to)

\* C7: filter_by_date_range(from, to) returns exactly the stored records whose
\* date lies between from and to in year-month-day order, both ends included,
\* each as often as it is stored and in the stored order; the result is empty
\* when from is after to.
C7_RangeFilter ==
    call.op = "filter" =>
        /\ out = SelectSeq(expenses, LAMBDA e : InRange(e.date, call.from, call.to))
        /\ DateKey(call.from) > DateKey(call.to) => out = <<>>

\* a filter whose two ends are both dates of stored records returned two of
\* three records
C7_Witness ==
    /\ call.op = "filter"
    /\ Len(expenses) = 3
    /\ Len(out) = 2
    /\ out[1].date = call.from
    /\ out[2].date = call.to
    /\ DateKey(call.from) < DateKey(call.to)

CaseFold ==
    ("A" :> "a") @@ ("B" :> "b") @@ ("C" :> "c") @@ ("D" :> "d") @@
        ("E" :> "e") @@ ("F" :> "f") @@ ("G" :> "g") @@ ("H" :> "h") @@
        ("I" :> "i") @@ ("J" :> "j") @@ ("K" :> "k") @@ ("L" :> "l") @@
        ("M" :> "m") @@ ("N" :> "n") @@ ("O" :> "o") @@ ("P" :> "p") @@
        ("Q" :> "q") @@ ("R" :> "r") @@ ("S" :> "s") @@ ("T" :> "t") @@
        ("U" :> "u") @@ ("V" :> "v") @@ ("W" :> "w") @@ ("X" :> "x") @@
        ("Y" :> "y") @@ ("Z" :> "z")

FoldChar(c) == IF c \in DOMAIN CaseFold THEN CaseFold[c] ELSE c

Lowered(s) == [i \in 1..Len(s) |-> FoldChar(s[i])]

RECURSIVE SumOver(_, _)
\* the sum of f over the finite set S
SumOver(f, S) ==
    IF S = {} THEN 0
    ELSE LET x == CHOOSE x \in S : TRUE
         IN  f[x] + SumOver(f, S \ {x})

\* C8: totals_by_category has exactly one key per distinct lowercased
\* category of the list, each key maps to the sum of the amounts of the
\* records whose lowercased category is that key, and the sum of the map's
\* values is total(list).
C8_TotalsAggregation ==
    call.op = "summary" =>
        LET idx == 1..Len(expenses)
            amounts == [i \in idx |-> expenses[i].amount]
        IN  /\ DOMAIN by = {Lowered(expenses[i].category) : i \in idx}
            /\ \A k \in DOMAIN by :
                   by[k] = SumOver(amounts,
                                   {i \in idx : Lowered(expenses[i].category) = k})
            /\ SumOver(by, DOMAIN by) = tot
            /\ tot = SumOver(amounts, idx)

\* a summary of three records of which two have labels differing in case only
C8_Witness ==
    /\ call.op = "summary"
    /\ Len(expenses) = 3
    /\ Cardinality(DOMAIN by) = 2
    /\ Cardinality({expenses[i].category : i \in 1..3}) = 3

----------------------------------------------------------------------------
(* Claims about persistence *)

FileLines == GetLines(file, 1, <<>>)

SameTexts(a, b) ==
    /\ Len(a) = Len(b)
    /\ \A i \in 1..Len(a) :
           /\ a[i].date = b[i].date
           /\ a[i].category = b[i].category
           /\ a[i].description = b[i].description

\* C1: save_csv followed by load_csv of the same path leaves the store with
\* the same number of records, in the same order, each with the date,
\* category and description it had before the save.
C1_SaveLoadRoundTrip ==
    [][(call.op = "save" /\ ret /\ call'.op = "load" /\ ret')
           => SameTexts(expenses', expenses)]_vars

\* a store of two records, one with a comma in its label, has been saved and
\* loaded back
C1_Witness ==
    /\ call.op = "load"
    /\ ret
    /\ Len(expenses) = 2
    /\ file = SavedContent(expenses)
    /\ \E i \in 1..2 : expenses[i].category = <<"a", ",", "b">>

RECURSIVE DecodedRecords(_)
\* the records of the lines that decode, in the order of the lines
DecodedRecords(lines) ==
    IF lines = <<>> THEN <<>>
    ELSE parse_csv_line(<<>>, Head(lines)) \o DecodedRecords(Tail(lines))

\* C2: after a load_csv that opened the file, the store holds exactly one
\* record for each line of the file that decodes, in file order; lines that
\* do not decode are skipped, a first line equal to the header yields no
\* record, and nothing the store held before the load remains.
C2_LenientWholesaleLoad ==
    (call.op = "load" /\ ret) =>
        /\ expenses = DecodedRecords(FileLines)
        /\ (FileLines # <<>> /\ FileLines[1] = Header)
               => expenses = DecodedRecords(Tail(FileLines))

\* a file with no header, one line that decodes and one that does not has
\* been loaded
C2_Witness ==
    /\ call.op = "load"
    /\ ret
    /\ Len(FileLines) = 2
    /\ FileLines[1] # Header
    /\ Len(expenses) = 1

AllNonNegative(list) == \A i \in 1..Len(list) : list[i].amount >= 0

\* a line of the file decodes to a record with an amount below zero
HasNegativeLine ==
    \E i \in 1..Len(FileLines) :
        \E r \in {parse_csv_line(<<>>, FileLines[i])} :
            r # <<>> /\ r[1].amount < 0

IsFloatLiteral(s) ==
    LET j == IF HasSign(s, 1) THEN 2 ELSE 1
        k == DigitRun(s, j)
        hasDot == k <= Len(s) /\ s[k] = "."
        l == IF hasDot THEN DigitRun(s, k + 1) ELSE k
    IN  /\ l = Len(s) + 1
        /\ (k - j) + (IF hasDot THEN l - (k + 1) ELSE 0) > 0

StrictlyDecodable(line) ==
    LET cols == csv_split_line(line)
    IN  /\ Len(cols) >= 4
        /\ parse_date(cols[1]) # NoDate
        /\ IsFloatLiteral(cols[2])

\* C9: a line is decoded into a record if and only if it splits into at
\* least 4 fields, field 0 parses as a Date and field 1 is in its entirety a
\* floating-point literal.
C9_RecordDecoding ==
    (call.op = "load" /\ ret) =>
        Len(expenses)
            = Cardinality({i \in 1..Len(FileLines) : StrictlyDecodable(FileLines[i])})

\* a file with a line whose amount field is more than a literal has been loaded
C9_Witness ==
    /\ call.op = "load"
    /\ ret
    /\ \E i \in 1..Len(FileLines) :
           LET cols == csv_split_line(FileLines[i])
           IN  /\ Len(cols) >= 4
               /\ parse_date(cols[1]) # NoDate
               /\ ~IsFloatLiteral(cols[2])

\* C10: a load_csv whose file cannot be opened returns failure and leaves the
\* store's records as they were, in the same order.
C10_FailedLoadKeepsStore ==
    [][(call'.op = "load" /\ (file = NoFile \/ ~ret'))
           => (~ret' /\ expenses' = expenses)]_vars

\* a load has failed on a store that holds records
C10_Witness ==
    /\ call.op = "load"
    /\ ~ret
    /\ file = NoFile
    /\ Len(expenses) = 2

====
